---- MODULE Spec2Model ----
(***************************************************************************)
(* A model of PyLambdAPI (src/PyLambdAPI/lambda_flask.py): the route       *)
(* registry of a LambdaFlask application, its registration operations,     *)
(* event normalisation, the middleware chain of a MethodHandler and the    *)
(* dispatch of one event by LambdaFlask.process_request.                   *)
(*                                                                         *)
(* Python values are modelled as follows.                                  *)
(*   - a dict with string keys is a TLA+ function from its key set;        *)
(*   - a response body is a record [typ, val, enc]: typ is the Python type *)
(*     the value was built with, val its content as a flat sequence of     *)
(*     strings, and enc the number of times json.dumps was applied to it.  *)
(*     A value with enc > 0 is a str (the JSON text of the inner value);   *)
(*   - the dict that travels through process_request as `response` is a    *)
(*     record with the set `has` of the keys that are present; a handler   *)
(*     may also return a value that is no dict at all (kind = "raw");      *)
(*   - user code (handler functions, middleware process_request) is        *)
(*     arbitrary: a call picks its outcome nondeterministically among      *)
(*     returning a value and raising.                                      *)
(***************************************************************************)
EXTENDS Integers, Sequences, FiniteSets, TLC

\* ------------------------------------------------------------- bounds
\* Registration operations performed on one application.
MaxRegs == 2
\* Length of the middleware list handed to one route_decorator call.
MaxMws == 1
\* Length of the middleware list of a route_decorator call when registration
\* alone is explored.
MaxDeclMws == 2

\* ------------------------------------------------------------ universes
ALLOWED_SOURCES == {"function_url", "api_gateway_proxy"}

\* Paths an application registers, and one more that events may ask for.
Paths == {"/a", "/b"}
EventPaths == Paths \cup {"/zz"}
\* Method keys a registrant binds, and the methods events carry.
Methods == {"GET", "POST"}
EventMethods == Methods \cup {"get"}
\* Handler functions (identities of user callables).
Funcs == {"f1", "f2"}
\* Middleware objects: instances of Middleware subclasses that define a
\* callable process_request.
GoodMws == {"m1", "m2"}
\* Objects handed to use_middleware that are rejected: not an instance of
\* Middleware; a bare Middleware() (the base class defines no
\* process_request); a subclass whose process_request is not callable; an
\* object of a class that does not derive from Middleware and defines a
\* callable process_request.
BadMws == {"notMw", "baseMw", "ncMw", "duckMw"}
\* callable(getattr(middleware, 'process_request', None))
HasCallableProcessRequest(middleware) == middleware \in GoodMws \cup {"duckMw"}
MwObjects == GoodMws \cup BadMws

None == "<None>"
NoErr == "<no error>"

\* --------------------------------------------------------- Python values
EmptyDict == [k \in {} |-> ""]

\* Variant of Merge: a key of both keeps the value of the first mapping.
Merge_FirstWins(a, b) ==
    [k \in (DOMAIN a) \cup (DOMAIN b) |-> IF k \in DOMAIN a THEN a[k] ELSE b[k]]

\* {**a, **b}
Merge(a, b) ==
    [k \in (DOMAIN a) \cup (DOMAIN b) |-> IF k \in DOMAIN b THEN b[k] ELSE a[k]]

\* d[k] = v on a copy of d
Put(d, k, v) ==
    [x \in (DOMAIN d) \cup {k} |-> IF x = k THEN v ELSE d[x]]

PyStr(s) == [typ |-> "str", val |-> <<s>>, enc |-> 0]
PyDict(kv) == [typ |-> "dict", val |-> kv, enc |-> 0]
PyBytes(s) == [typ |-> "bytes", val |-> <<s>>, enc |-> 0]

\* isinstance(v, str)
IsStr(v) == v.typ = "str" \/ v.enc > 0

\* json.dumps(v) succeeds (bytes are not JSON serialisable)
Dumpable(v) == IsStr(v) \/ v.typ = "dict"

\* json.dumps(v): the JSON text of v, a str
Dumps(v) == [v EXCEPT !.enc = @ + 1]

\* ------------------------------------------------------------- Response
RespKeys == {"statusCode", "body", "headers", "isBase64Encoded"}

\* Response.__init__
Response(statusCode, body, headers, isBase64Encoded, isApiGatewayEvent) ==
    [statusCode |-> statusCode, body |-> body, body_encoded |-> isBase64Encoded,
     headers |-> headers, isApiGatewayEvent |-> isApiGatewayEvent]

\* A Python dict with (some of) the keys of a response.
MkDict(has, statusCode, body, headers, isBase64Encoded) ==
    [kind |-> "dict", has |-> has,
     statusCode |-> IF "statusCode" \in has THEN statusCode ELSE 0,
     body |-> IF "body" \in has THEN body ELSE PyStr(None),
     headers |-> IF "headers" \in has THEN headers ELSE None,
     isBase64Encoded |-> IF "isBase64Encoded" \in has THEN isBase64Encoded ELSE FALSE]

\* A value that is not a dict (it has no .get).
RawValue(s) ==
    [kind |-> "raw", has |-> {}, statusCode |-> 0, body |-> PyStr(s),
     headers |-> None, isBase64Encoded |-> FALSE]

NoResponse == RawValue(None)

\* Response.json: whether json.dumps raises in it
JsonRaises(r) == r.isApiGatewayEvent /\ ~IsStr(r.body) /\ ~Dumpable(r.body)

\* Variant of Json: under gateway-proxy the body is serialised even when it
\* is a str.
Json_AlwaysDumps(r) ==
    IF r.isApiGatewayEvent
    THEN MkDict({"statusCode", "body"}, r.statusCode, Dumps(r.body), None, FALSE)
    ELSE MkDict({"statusCode", "body"}, r.statusCode, r.body, None, FALSE)

\* Variant of Json: the envelope carries the headers and the base64 flag.
Json_WithHeaders(r) ==
    MkDict(RespKeys, r.statusCode,
           IF r.isApiGatewayEvent /\ ~IsStr(r.body) THEN Dumps(r.body) ELSE r.body,
           r.headers, r.body_encoded)

\* Response.json
Json(r) ==
    IF r.isApiGatewayEvent
    THEN MkDict({"statusCode", "body"}, r.statusCode,
                IF IsStr(r.body) THEN r.body ELSE Dumps(r.body), None, FALSE)
    ELSE MkDict({"statusCode", "body"}, r.statusCode, r.body, None, FALSE)

\* dict.get(key, default)
GetStatusCode(d, default) == IF "statusCode" \in d.has THEN d.statusCode ELSE default
GetBody(d, default) == IF "body" \in d.has THEN d.body ELSE default
GetHeaders(d, default) == IF "headers" \in d.has THEN d.headers ELSE default
GetIsBase64Encoded(d, default) ==
    IF "isBase64Encoded" \in d.has THEN d.isBase64Encoded ELSE default

\* ---------------------------------------------------------------- state
VARIABLES
    source,                   \* LambdaFlask.source
    isApiGatewayEvent,        \* LambdaFlask.isApiGatewayEvent
    routes,                   \* LambdaFlask.routes: path -> Route
    nregs,                    \* registration calls made so far
    regErr,                   \* exception raised by the registration call just made
    lastOp,                   \* the registration call just made, with its arguments
    pc,                       \* position of the invocation of process_request
    event,                    \* the event being processed
    req,                      \* req_info (the normalised request)
    cur,                      \* req_params inside MethodHandler.execute
    idx,                      \* position of execute in self.middlewares
    calls,                    \* the user callables invoked by this invocation
    response,                 \* the local `response` of process_request
    ret,                      \* the value process_request returned
    caught,                   \* str(e) in the except clause of process_request
    raised,                   \* the exception that left process_request
    entry                     \* self.routes when process_request was entered

regVars == <<routes, nregs, regErr, lastOp>>
cfgVars == <<source, isApiGatewayEvent>>
reqVars == <<pc, event, req, cur, idx, calls, response, ret, caught, raised, entry>>
reqVars_noPc == <<event, req, cur, idx, calls, response, ret, caught, raised, entry>>
vars == <<source, isApiGatewayEvent, routes, nregs, regErr, lastOp, pc, event,
          req, cur, idx, calls, response, ret, caught, raised, entry>>

\* ------------------------------------------------- MethodHandler / Route
\* The http_methods argument: None, or a list of method names.
HmNone == [none |-> TRUE, list |-> <<>>]
HmList(s) == [none |-> FALSE, list |-> s]

\* MethodHandler.__init__
MethodHandler(func) == [func |-> func, middlewares |-> <<>>]

\* Route.__init__: http_methods or ['GET']
Route(path, http_methods) ==
    [path |-> path,
     http_methods |-> IF http_methods.none \/ http_methods.list = <<>>
                      THEN <<"GET">> ELSE http_methods.list,
     methods |-> [m \in {} |-> MethodHandler("f1")]]

\* Variant of MwRejection: process_request is not required to be callable.
MwRejection_NoCallableCheck(middleware) ==
    CASE middleware \in {"notMw", "duckMw"} -> "Middleware must be a subclass of Middleware"
      [] middleware = "baseMw" -> "'Middleware' object has no attribute 'process_request'"
      [] OTHER -> NoErr

\* MethodHandler.use_middleware: the exception it raises, if any
MwRejection(middleware) ==
    CASE middleware \in {"notMw", "duckMw"} -> "Middleware must be a subclass of Middleware"
      [] middleware = "baseMw" -> "'Middleware' object has no attribute 'process_request'"
      [] middleware = "ncMw" -> "Middleware must be callable"
      [] OTHER -> NoErr

\* MethodHandler.use_middleware
HandlerUseMiddleware(h, middleware) ==
    IF MwRejection(middleware) # NoErr
    THEN [handler |-> h, err |-> MwRejection(middleware)]
    ELSE [handler |-> [h EXCEPT !.middlewares = Append(@, middleware)], err |-> NoErr]

\* Variant of RouteRoute: a method that is bound keeps its MethodHandler,
\* which gets the function.
RouteRoute_KeepingChain(route, http_method, func) ==
    [route EXCEPT !.methods =
        [m \in (DOMAIN route.methods) \cup {http_method} |->
            IF m # http_method THEN route.methods[m]
            ELSE IF m \in DOMAIN route.methods
            THEN [route.methods[m] EXCEPT !.func = func]
            ELSE MethodHandler(func)]]

\* Route.route: self.methods[http_method] = MethodHandler(func)
RouteRoute(route, http_method, func) ==
    [route EXCEPT !.methods =
        [m \in (DOMAIN route.methods) \cup {http_method} |->
            IF m = http_method THEN MethodHandler(func) ELSE route.methods[m]]]

NoMethodMsg(http_method) ==
    CASE http_method = "GET" -> "No method registered for GET"
      [] http_method = "POST" -> "No method registered for POST"
      [] OTHER -> "No method registered"

\* Variant of RouteUseMiddleware: a method that is not bound gets a
\* MethodHandler without a function.
RouteUseMiddleware_Implicit(route, http_method, middleware) ==
    LET r0 == IF http_method \in DOMAIN route.methods THEN route
              ELSE RouteRoute(route, http_method, None)
        r == HandlerUseMiddleware(r0.methods[http_method], middleware)
    IN  [route |-> [r0 EXCEPT !.methods[http_method] = r.handler], err |-> r.err]

\* Route.use_middleware
RouteUseMiddleware(route, http_method, middleware) ==
    IF http_method \notin DOMAIN route.methods
    THEN [route |-> route, err |-> NoMethodMsg(http_method)]
    ELSE LET r == HandlerUseMiddleware(route.methods[http_method], middleware)
         IN  [route |-> [route EXCEPT !.methods[http_method] = r.handler],
              err |-> r.err]

\* Variant of LambdaFlaskRoute: a Route is created on every call.
LambdaFlaskRoute_Replacing(rs, path, http_methods) ==
    [p \in (DOMAIN rs) \cup {path} |->
        IF p = path THEN Route(path, http_methods) ELSE rs[p]]

\* LambdaFlask.route: the registry after the call (the Route it returns is
\* the entry at path)
LambdaFlaskRoute(rs, path, http_methods) ==
    IF path \in DOMAIN rs
    THEN rs
    ELSE [p \in (DOMAIN rs) \cup {path} |->
            IF p = path THEN Route(path, http_methods) ELSE rs[p]]

\* Variant of DecorateMiddlewares: the list is walked from its end.
RECURSIVE DecorateMiddlewares_Reversed(_, _, _)
DecorateMiddlewares_Reversed(route, http_method, middlewares) ==
    IF middlewares = <<>>
    THEN [route |-> route, err |-> NoErr]
    ELSE LET r == RouteUseMiddleware(route, http_method, middlewares[Len(middlewares)])
         IN  IF r.err # NoErr
             THEN r
             ELSE DecorateMiddlewares_Reversed(r.route, http_method,
                                               SubSeq(middlewares, 1, Len(middlewares) - 1))

\* route_decorator.decorator, inner loop: for middleware in middlewares
RECURSIVE DecorateMiddlewares(_, _, _)
DecorateMiddlewares(route, http_method, middlewares) ==
    IF middlewares = <<>>
    THEN [route |-> route, err |-> NoErr]
    ELSE LET r == RouteUseMiddleware(route, http_method, Head(middlewares))
         IN  IF r.err # NoErr
             THEN r
             ELSE DecorateMiddlewares(r.route, http_method, Tail(middlewares))

\* route_decorator.decorator, outer loop: for http_method in http_methods
RECURSIVE DecorateMethods(_, _, _, _)
DecorateMethods(route, http_methods, func, middlewares) ==
    IF http_methods = <<>>
    THEN [route |-> route, err |-> NoErr]
    ELSE LET bound == RouteRoute(route, Head(http_methods), func)
             r == DecorateMiddlewares(bound, Head(http_methods), middlewares)
         IN  IF r.err # NoErr
             THEN r
             ELSE DecorateMethods(r.route, Tail(http_methods), func, middlewares)

\* route_decorator(path, http_methods, middlewares)(func): the registry after
\* the call and the exception the call raised, if any. Iterating None raises
\* TypeError after self.route has created the Route.
Decorator(rs, path, http_methods, middlewares, func) ==
    LET rs1 == LambdaFlaskRoute(rs, path, http_methods)
    IN  IF http_methods.none
        THEN [routes |-> rs1, err |-> "'NoneType' object is not iterable"]
        ELSE LET r == DecorateMethods(rs1[path], http_methods.list, func, middlewares)
             IN  [routes |-> [rs1 EXCEPT ![path] = r.route], err |-> r.err]

\* Inputs of the registration calls.
MethodLists == {<<"GET">>, <<"POST">>, <<"GET", "POST">>}
HttpMethodsArgs == {HmNone} \cup {HmList(s) : s \in MethodLists}
RECURSIVE SeqsUpTo(_, _)
SeqsUpTo(S, n) ==
    IF n = 0 THEN {<<>>}
    ELSE LET shorter == SeqsUpTo(S, n - 1)
         IN  shorter \cup {Append(s, x) : s \in shorter, x \in S}
MiddlewareLists == SeqsUpTo(MwObjects, MaxMws)

\* --------------------------------------------------- event normalisation
\* An event is a record
\*   path    the path field (event['path'], or
\*           event['requestContext']['http']['path']); Absent when the key
\*           is missing
\*   method  the method field
\*   query   queryStringParameters: [tag, d], tag in absent | null | dict
\*   body    body: [tag, text], tag in absent | null | text
\*   b64     isBase64Encoded: absent | true | false
\*   headers the headers mapping (opaque)
Absent == "<absent>"

\* Body texts, by what json.loads and base64.b64decode make of them.
TxtEmpty == ""
TxtObj == "{k: bv, b: 2}"
TxtList == "[1]"
TxtBad == "not json"
TxtB64 == "aGk="
Texts == {TxtEmpty, TxtObj, TxtList, TxtBad, TxtB64}

\* json.loads(text)
JsonLoads(text) ==
    CASE text = TxtObj ->
            [err |-> NoErr, typ |-> "dict", d |-> [x \in {"k", "b"} |-> IF x = "k" THEN "bv" ELSE "2"]]
      [] text = TxtList -> [err |-> NoErr, typ |-> "list", d |-> EmptyDict]
      [] OTHER -> [err |-> "Expecting value: line 1 column 1 (char 0)", typ |-> "none", d |-> EmptyDict]

\* base64.b64decode(text): characters outside the alphabet are discarded,
\* what is left must be padded correctly
B64Decode(text) ==
    CASE text = TxtB64 -> [err |-> NoErr, bytes |-> "b'hi'"]
      [] OTHER -> [err |-> "Incorrect padding", bytes |-> ""]

NotAMapping(typ) ==
    CASE typ = "none" -> "'NoneType' object is not a mapping"
      [] typ = "str" -> "'str' object is not a mapping"
      [] typ = "list" -> "'list' object is not a mapping"
      [] OTHER -> NoErr

\* A Python value handed to _aggregate_params: [typ, d, text], typ in
\* dict | none | str | list
PyNone == [typ |-> "none", d |-> EmptyDict, text |-> ""]
PyMapping(d) == [typ |-> "dict", d |-> d, text |-> ""]
PyText(t) == [typ |-> "str", d |-> EmptyDict, text |-> t]
PyList == [typ |-> "list", d |-> EmptyDict, text |-> ""]

\* bool(v)
Truthy(v) ==
    CASE v.typ = "none" -> FALSE
      [] v.typ = "dict" -> DOMAIN v.d # {}
      [] v.typ = "str" -> v.text # ""
      [] OTHER -> TRUE

NormFail(msg) == [err |-> msg, path |-> "", method |-> "", params |-> EmptyDict]

\* RequestInfo._aggregate_params: the params, or the exception raised
AggregateParams(query_string_params, body, headers, is_base64_encoded) ==
    LET decoded == B64Decode(body.text)
        loaded == JsonLoads(body.text)
        failed ==
            IF Truthy(body) /\ is_base64_encoded THEN decoded.err
            ELSE IF Truthy(body) THEN loaded.err
            ELSE NoErr
        body2 ==
            IF Truthy(body) /\ is_base64_encoded
            THEN PyMapping([x \in {"base64", "file"} |->
                               IF x = "base64" THEN "True" ELSE decoded.bytes])
            ELSE IF Truthy(body)
            THEN (IF loaded.typ = "dict" THEN PyMapping(loaded.d) ELSE PyList)
            ELSE body
    IN  IF failed # NoErr THEN [err |-> failed, params |-> EmptyDict]
        ELSE IF query_string_params.typ # "dict"
        THEN [err |-> NotAMapping(query_string_params.typ), params |-> EmptyDict]
        ELSE IF body2.typ # "dict"
        THEN [err |-> NotAMapping(body2.typ), params |-> EmptyDict]
        ELSE [err |-> NoErr,
              params |-> Put(Merge(query_string_params.d, body2.d), "headers", headers)]

\* event.get(key, {}) for queryStringParameters and body
GetOrEmpty(field) ==
    CASE field.tag = "absent" -> PyMapping(EmptyDict)
      [] field.tag = "null" -> PyNone
      [] field.tag = "dict" -> PyMapping(field.d)
      [] OTHER -> PyText(field.text)

\* event.get(key) if event.get(key, None) else {}
GetTruthyOrEmpty(field) ==
    IF Truthy(GetOrEmpty(field)) THEN GetOrEmpty(field) ELSE PyMapping(EmptyDict)

\* event.get('isBase64Encoded', False)
IsBase64(e) == e.b64 = "true"

\* RequestInfo.__init__ with aggregate=True
RequestInfo(path, http_method, query_string_params, body, headers, is_base64_encoded) ==
    LET a == AggregateParams(query_string_params, body, headers, is_base64_encoded)
    IN  IF a.err # NoErr THEN NormFail(a.err)
        ELSE [err |-> NoErr, path |-> path, method |-> http_method, params |-> a.params]

\* utills._process_function_url_event
ProcessFunctionUrlEvent(e) ==
    IF e.path = Absent THEN NormFail("'requestContext'")
    ELSE RequestInfo(e.path, e.method, GetOrEmpty(e.query), GetOrEmpty(e.body),
                     e.headers, IsBase64(e))

\* utills._process_api_url_event
ProcessApiUrlEvent(e) ==
    IF e.path = Absent THEN NormFail("'path'")
    ELSE RequestInfo(e.path, e.method, GetTruthyOrEmpty(e.query),
                     GetTruthyOrEmpty(e.body), e.headers, IsBase64(e))

\* utills.process_event
ProcessEvent(e, type) ==
    CASE type = "function_url" -> ProcessFunctionUrlEvent(e)
      [] type = "api_gateway_proxy" -> ProcessApiUrlEvent(e)
      [] OTHER -> NormFail("Invalid Type")

QueryAbsent == [tag |-> "absent", d |-> EmptyDict, text |-> ""]
QueryNull == [tag |-> "null", d |-> EmptyDict, text |-> ""]
QueryDict(d) == [tag |-> "dict", d |-> d, text |-> ""]
BodyAbsent == [tag |-> "absent", d |-> EmptyDict, text |-> ""]
BodyNull == [tag |-> "null", d |-> EmptyDict, text |-> ""]
BodyText(t) == [tag |-> "text", d |-> EmptyDict, text |-> t]

\* The query string k=qv&q=1
Query1 == [x \in {"k", "q"} |-> IF x = "k" THEN "qv" ELSE "1"]

Event(path, method, query, body, b64) ==
    [path |-> path, method |-> method, query |-> query, body |-> body,
     b64 |-> b64, headers |-> "hdrs"]

\* The events dispatched: every path and method without a body; a registered
\* path with a JSON object as the body; one path that is never registered
\* and one that may be, with a body that is no JSON; an event without a path.
Events ==
    {Event(p, m, QueryDict(Query1), BodyAbsent, "absent") :
        p \in EventPaths, m \in EventMethods}
    \cup {Event("/a", "GET", QueryDict(Query1), BodyText(TxtObj), "false")}
    \cup {Event(p, "GET", QueryAbsent, BodyText(TxtBad), "absent") : p \in {"/a", "/zz"}}
    \cup {Event(Absent, "GET", QueryAbsent, BodyAbsent, "absent")}

NoEvent == Event(Absent, "", QueryAbsent, BodyAbsent, "absent")
NoReq == NormFail(NoErr)

\* ------------------------------------------------------------- user code
\* What a middleware's process_request may do with the params it is given.
MwOutcomes == {"pass", "change", "respond", "raise"}

\* The Responses a middleware may return: a mapping or a string body, built
\* with the default variant tag or with isApiGatewayEvent=True, and a body
\* of bytes.
MwResponses ==
    {Response(403, PyDict(<<"error", "denied">>), None, FALSE, FALSE),
     Response(401, PyStr("denied"), None, FALSE, FALSE),
     Response(403, PyDict(<<"error", "denied">>), None, FALSE, TRUE),
     Response(200, PyBytes("png"), None, TRUE, FALSE),
     Response(200, PyBytes("png"), None, TRUE, TRUE)}

\* The values a handler function may return: complete and partial
\* response dicts, a dict with more keys, a body of bytes, and a value that
\* is no dict.
HandlerResults ==
    {MkDict({"statusCode", "body"}, 200, PyDict(<<"msg", "ok">>), None, FALSE),
     MkDict({"statusCode", "body"}, 200, PyStr("hi"), None, FALSE),
     MkDict({"body"}, 0, PyStr("hi"), None, FALSE),
     MkDict({"statusCode"}, 201, PyStr(None), None, FALSE),
     MkDict({}, 0, PyStr(None), None, FALSE),
     MkDict({"statusCode", "body"}, 200, PyBytes("png"), None, FALSE),
     MkDict(RespKeys, 200, PyDict(<<"msg", "ok">>), "{X-A: 1}", TRUE),
     RawValue("hi")}

MwError == "denied by middleware"
HandlerError == "boom"
NotJsonSerializable == "Object of type bytes is not JSON serializable"
NoGet == "object has no attribute 'get'"

\* {'error': str(e)}
ErrorBody(msg) == PyDict(<<"error", msg>>)

\* Variant of ErrorResponse: the body is the bare message.
ErrorResponse_BareMessage(msg, gw) == Json(Response(500, PyStr(msg), None, FALSE, gw))

\* process_request, the except clause: Response(500, {'error': str(e)}, ...).json()
ErrorResponse(msg, gw) == Json(Response(500, ErrorBody(msg), None, FALSE, gw))

\* Variant of NotFoundResponse: the message is wrapped like an error body.
NotFoundResponse_Wrapped(gw) ==
    Json(Response(404, ErrorBody("Route Not Found"), None, FALSE, gw))

\* process_request, path not in self.routes: Response(404, ...).json()
NotFoundResponse(gw) == Json(Response(404, PyStr("Route Not Found"), None, FALSE, gw))

\* Variant of MethodNotAllowedResponse: the status code of the other miss.
MethodNotAllowedResponse_404 ==
    Json(Response(404, PyStr("Method Not Allowed"), None, FALSE, FALSE))

\* Route.handle_request, method not in self.methods: Response(405, ...).json()
\* (the Response is built with the default isApiGatewayEvent=False)
MethodNotAllowedResponse ==
    Json(Response(405, PyStr("Method Not Allowed"), None, FALSE, FALSE))

\* Variant of MiddlewareAt: the chain is walked from its end.
MiddlewareAt_Reversed(h, i) == h.middlewares[Len(h.middlewares) - i + 1]

\* MethodHandler.execute: the middleware the i-th turn of the loop calls
MiddlewareAt(h, i) == h.middlewares[i]

NoResponseObject == Response(0, PyStr(None), None, FALSE, FALSE)

\* One entry of the invocation log: the callable, the value it was given,
\* how it ended (params | response | result | raise), and what it returned:
\* params (a middleware that lets the request through), a Response object (a
\* middleware that answers), or the handler's return value.
Call(who, arg, out, retp, resp, result) ==
    [who |-> who, arg |-> arg, out |-> out, retp |-> retp, resp |-> resp,
     result |-> result]

\* A registration call and its arguments (NoOp: none since the last event).
Op(op, path, http_methods, middlewares, func, http_method, middleware) ==
    [op |-> op, path |-> path, hm |-> http_methods, mws |-> middlewares,
     func |-> func, method |-> http_method, mw |-> middleware]
NoOp == Op("none", "", HmNone, <<>>, "", "", "")

EmptyRoutes == [p \in {} |-> Route(p, HmNone)]

\* -------------------------------------------------------------------- Init
\* LambdaFlask.__init__ with a source of ALLOWED_SOURCES
Init ==
    /\ source \in ALLOWED_SOURCES
    /\ isApiGatewayEvent = (source = "api_gateway_proxy")
    /\ routes = EmptyRoutes
    /\ nregs = 0
    /\ regErr = NoErr
    /\ lastOp = NoOp
    /\ pc = "idle"
    /\ event = NoEvent
    /\ req = NoReq
    /\ cur = EmptyDict
    /\ idx = 0
    /\ calls = <<>>
    /\ response = NoResponse
    /\ ret = NoResponse
    /\ caught = NoErr
    /\ raised = NoErr
    /\ entry = EmptyRoutes

\* ------------------------------------------------------------ registration
\* app.route(path, http_methods)
RegisterRoute ==
    /\ pc = "idle" /\ nregs < MaxRegs
    /\ \E path \in Paths, hm \in HttpMethodsArgs :
        /\ routes' = LambdaFlaskRoute(routes, path, hm)
        /\ lastOp' = Op("route", path, hm, <<>>, "", "", "")
    /\ regErr' = NoErr
    /\ nregs' = nregs + 1
    /\ UNCHANGED <<cfgVars, reqVars>>

\* app.routes[path].route(http_method, func)
BindMethod ==
    /\ pc = "idle" /\ nregs < MaxRegs
    /\ \E path \in DOMAIN routes, m \in Methods, f \in Funcs :
        /\ routes' = [routes EXCEPT ![path] = RouteRoute(@, m, f)]
        /\ lastOp' = Op("Route.route", path, HmNone, <<>>, f, m, "")
    /\ regErr' = NoErr
    /\ nregs' = nregs + 1
    /\ UNCHANGED <<cfgVars, reqVars>>

\* app.routes[path].use_middleware(http_method, middleware)
AttachMiddleware ==
    /\ pc = "idle" /\ nregs < MaxRegs
    /\ \E path \in DOMAIN routes, m \in Methods, mw \in MwObjects :
        LET r == RouteUseMiddleware(routes[path], m, mw)
        IN  /\ routes' = [routes EXCEPT ![path] = r.route]
            /\ regErr' = r.err
            /\ lastOp' = Op("Route.use_middleware", path, HmNone, <<>>, "", m, mw)
    /\ nregs' = nregs + 1
    /\ UNCHANGED <<cfgVars, reqVars>>

\* @app.route_decorator(path, http_methods, middlewares) applied to func
RouteDecorator ==
    /\ pc = "idle" /\ nregs < MaxRegs
    /\ \E path \in Paths, hm \in HttpMethodsArgs, mws \in MiddlewareLists, f \in Funcs :
        LET r == Decorator(routes, path, hm, mws, f)
        IN  /\ routes' = r.routes
            /\ regErr' = r.err
            /\ lastOp' = Op("route_decorator", path, hm, mws, f, "", "")
    /\ nregs' = nregs + 1
    /\ UNCHANGED <<cfgVars, reqVars>>

\* ---------------------------------------------------------- process_request
\* The MethodHandler the request is dispatched to.
Target == routes[req.path].methods[req.method]
\* Route.handle_request: method in self.methods
Bound == req.path \in DOMAIN routes /\ req.method \in DOMAIN routes[req.path].methods

\* process_request is called with an event; response starts as a Response
\* object (which is not a dict).
Receive ==
    /\ pc = "idle"
    /\ \E e \in Events : event' = e
    /\ response' = RawValue("Response(500, Unable To Process Request)")
    /\ pc' = "Received"
    /\ regErr' = NoErr
    /\ lastOp' = NoOp
    /\ entry' = routes
    /\ UNCHANGED <<cfgVars, routes, nregs, req, cur, idx, calls, ret, caught, raised>>

\* utills().process_event(event, self.source), and the request log
Normalize ==
    /\ pc = "Received"
    /\ LET n == ProcessEvent(event, source)
       IN  IF n.err # NoErr
           THEN /\ response' = ErrorResponse(n.err, isApiGatewayEvent)
                /\ caught' = n.err
                /\ pc' = "Errored"
                /\ req' = req
           ELSE /\ req' = n
                /\ pc' = "Normalized"
                /\ UNCHANGED <<response, caught>>
    /\ UNCHANGED <<cfgVars, regVars, event, cur, idx, calls, ret, raised, entry>>

\* Variant of Lookup: the Route is fetched with self.route(path), which
\* registers a path that is not there.
Lookup_Registering ==
    /\ pc = "Normalized"
    /\ routes' = LambdaFlaskRoute(routes, req.path, HmNone)
    /\ pc' = "Routed"
    /\ cur' = req.params
    /\ idx' = 1
    /\ UNCHANGED <<cfgVars, nregs, regErr, lastOp, event, req, calls, response, ret,
                   caught, raised, entry>>

\* req_info.route() in self.routes, found: route.handle_request is entered
Lookup ==
    /\ pc = "Normalized"
    /\ req.path \in DOMAIN routes
    /\ pc' = "Routed"
    /\ cur' = req.params
    /\ idx' = 1
    /\ UNCHANGED <<cfgVars, regVars, event, req, calls, response, ret, caught, raised, entry>>

\* req_info.route() in self.routes, not found: the 404 response
RouteNotFound ==
    /\ pc = "Normalized"
    /\ req.path \notin DOMAIN routes
    /\ response' = NotFoundResponse(isApiGatewayEvent)
    /\ pc' = "ChainExecuted"
    /\ UNCHANGED <<cfgVars, regVars, event, req, cur, idx, calls, ret, caught, raised, entry>>

\* Route.handle_request, method not in self.methods: Response(405, ...).json()
MethodNotAllowed ==
    /\ pc = "Routed"
    /\ ~Bound
    /\ response' = MethodNotAllowedResponse
    /\ pc' = "ChainExecuted"
    /\ UNCHANGED <<cfgVars, regVars, event, req, cur, idx, calls, ret, caught, raised, entry>>

\* MethodHandler.execute, one turn of the loop:
\*   req_params = middleware.process_request(req_params)
\*   if isinstance(req_params, Response): return req_params.json()
\* An exception (of the middleware, or of json.dumps inside Response.json) is
\* caught by process_request.
MiddlewareStep ==
    /\ pc = "Routed"
    /\ Bound
    /\ idx <= Len(Target.middlewares)
    /\ LET mw == MiddlewareAt(Target, idx)
       IN  \E o \in MwOutcomes :
            CASE o = "pass" ->
                    /\ cur' = cur
                    /\ idx' = idx + 1
                    /\ calls' = Append(calls, Call(mw, cur, "params", cur,
                                                   NoResponseObject, NoResponse))
                    /\ UNCHANGED <<pc, response, caught>>
              [] o = "change" ->
                    /\ cur' = Put(cur, mw, "set")
                    /\ idx' = idx + 1
                    /\ calls' = Append(calls, Call(mw, cur, "params", Put(cur, mw, "set"),
                                                   NoResponseObject, NoResponse))
                    /\ UNCHANGED <<pc, response, caught>>
              [] o = "respond" ->
                    \E r \in MwResponses :
                        /\ calls' = Append(calls, Call(mw, cur, "response", cur, r, NoResponse))
                        /\ IF JsonRaises(r)
                           THEN /\ response' = ErrorResponse(NotJsonSerializable, isApiGatewayEvent)
                                /\ caught' = NotJsonSerializable
                                /\ pc' = "Errored"
                           ELSE /\ response' = Json(r)
                                /\ caught' = caught
                                /\ pc' = "ChainExecuted"
                        /\ UNCHANGED <<cur, idx>>
              [] o = "raise" ->
                    /\ calls' = Append(calls, Call(mw, cur, "raise", cur,
                                                   NoResponseObject, NoResponse))
                    /\ response' = ErrorResponse(MwError, isApiGatewayEvent)
                    /\ caught' = MwError
                    /\ pc' = "Errored"
                    /\ UNCHANGED <<cur, idx>>
    /\ UNCHANGED <<cfgVars, regVars, event, req, ret, raised, entry>>

\* MethodHandler.execute after the loop: return self.func(req_params)
HandlerStep ==
    /\ pc = "Routed"
    /\ Bound
    /\ idx > Len(Target.middlewares)
    /\ \/ \E result \in HandlerResults :
            /\ response' = result
            /\ caught' = caught
            /\ pc' = "ChainExecuted"
            /\ calls' = Append(calls, Call(Target.func, cur, "result", cur,
                                           NoResponseObject, result))
       \/ /\ response' = ErrorResponse(HandlerError, isApiGatewayEvent)
          /\ caught' = HandlerError
          /\ pc' = "Errored"
          /\ calls' = Append(calls, Call(Target.func, cur, "raise", cur,
                                         NoResponseObject, NoResponse))
    /\ UNCHANGED <<cfgVars, regVars, event, req, cur, idx, ret, raised, entry>>

\* The Response built by the last line of process_request
FinalResponse(resp, gw) ==
    Response(GetStatusCode(resp, 500), GetBody(resp, PyDict(<<>>)),
             GetHeaders(resp, "{}"), GetIsBase64Encoded(resp, FALSE), gw)

\* process_request after the try statement: log_response (which, when
\* response logging is on and the logger is enabled for INFO, reads the
\* response with response.get and changes nothing) and the final
\* Response(...).json(). Both call response.get, which a value that is no
\* dict does not have, so such a value raises AttributeError with logging on
\* or off; json.dumps raises on a body it cannot serialise.
Encode ==
    /\ pc \in {"ChainExecuted", "Errored"}
    /\ IF response.kind # "dict"
       THEN /\ raised' = NoGet
            /\ pc' = "Raised"
            /\ ret' = ret
       ELSE IF JsonRaises(FinalResponse(response, isApiGatewayEvent))
       THEN /\ raised' = NotJsonSerializable
            /\ pc' = "Raised"
            /\ ret' = ret
       ELSE /\ ret' = Json(FinalResponse(response, isApiGatewayEvent))
            /\ pc' = "Encoded"
            /\ raised' = raised
    /\ UNCHANGED <<cfgVars, regVars, event, req, cur, idx, calls, response, caught, entry>>

\* process_request returns the envelope to its caller
Return ==
    /\ pc = "Encoded"
    /\ pc' = "Returned"
    /\ UNCHANGED <<cfgVars, regVars, event, req, cur, idx, calls, response, ret, caught,
                   raised, entry>>

\* The invocation is over; the application is ready for the next call.
Finish ==
    /\ pc \in {"Returned", "Raised"}
    /\ pc' = "idle"
    /\ event' = NoEvent
    /\ req' = NoReq
    /\ cur' = EmptyDict
    /\ idx' = 0
    /\ calls' = <<>>
    /\ response' = NoResponse
    /\ ret' = NoResponse
    /\ caught' = NoErr
    /\ raised' = NoErr
    /\ entry' = EmptyRoutes
    /\ UNCHANGED <<cfgVars, regVars>>

Next ==
    \/ RegisterRoute
    \/ BindMethod
    \/ AttachMiddleware
    \/ RouteDecorator
    \/ Receive
    \/ Normalize
    \/ Lookup
    \/ RouteNotFound
    \/ MethodNotAllowed
    \/ MiddlewareStep
    \/ HandlerStep
    \/ Encode
    \/ Return
    \/ Finish

Spec == Init /\ [][Next]_vars

\* ------------------------------------------- declarative registration alone
\* The configuration phase of an application that registers everything with
\* route_decorator on one path, with middleware lists of up to MaxDeclMws
\* accepted middleware.
DeclPath == "/a"
DeclMiddlewareLists == SeqsUpTo(GoodMws, MaxDeclMws)

\* @app.route_decorator(DeclPath, http_methods, middlewares) applied to func
Declare ==
    /\ pc = "idle" /\ nregs < MaxRegs
    /\ \E hm \in HttpMethodsArgs, mws \in DeclMiddlewareLists, f \in Funcs :
        LET r == Decorator(routes, DeclPath, hm, mws, f)
        IN  /\ routes' = r.routes
            /\ regErr' = r.err
            /\ lastOp' = Op("route_decorator", DeclPath, hm, mws, f, "", "")
    /\ nregs' = nregs + 1
    /\ UNCHANGED <<cfgVars, reqVars>>

InitDecl == Init /\ source = "function_url"
NextDecl == Declare
SpecDecl == InitDecl /\ [][NextDecl]_vars

\* ------------------------------------------------- normalisation alone
\* process_event applied to events of every shape: the query string absent,
\* null, empty or with parameters; the body absent, null or any of Texts;
\* isBase64Encoded absent, true or false; and an event without a path.
NormQueries == {QueryAbsent, QueryNull, QueryDict(EmptyDict), QueryDict(Query1)}
NormBodies == {BodyAbsent, BodyNull} \cup {BodyText(t) : t \in Texts}
NormEvents ==
    {Event("/a", "GET", q, b, f) :
        q \in NormQueries, b \in NormBodies, f \in {"absent", "true", "false"}}
    \cup {Event(Absent, "GET", QueryAbsent, BodyAbsent, "absent")}

\* A new application of either source whose process_request has just been
\* called with an event.
InitNorm ==
    /\ source \in ALLOWED_SOURCES
    /\ isApiGatewayEvent = (source = "api_gateway_proxy")
    /\ routes = EmptyRoutes
    /\ nregs = 0
    /\ regErr = NoErr
    /\ lastOp = NoOp
    /\ pc = "Received"
    /\ event \in NormEvents
    /\ req = NoReq
    /\ cur = EmptyDict
    /\ idx = 0
    /\ calls = <<>>
    /\ response = RawValue("Response(500, Unable To Process Request)")
    /\ ret = NoResponse
    /\ caught = NoErr
    /\ raised = NoErr
    /\ entry = EmptyRoutes
NextNorm == Normalize
SpecNorm == InitNorm /\ [][NextNorm]_vars

\* ----------------------------------------------------------- construction
\* The source argument of LambdaFlask(...): the two of ALLOWED_SOURCES and
\* others (another trigger, another letter case, the empty string).
SourceArgs == ALLOWED_SOURCES \cup {"sqs", "API_GATEWAY_PROXY", ""}
SourceNotAllowed == "Source Not Allowed"

\* Variant of LambdaFlaskInit: the source is not checked.
LambdaFlaskInit_Unchecked(src) ==
    [err |-> NoErr, isApiGatewayEvent |-> (src = "api_gateway_proxy")]

\* LambdaFlask.__init__: the exception it raises, if any, and
\* self.isApiGatewayEvent
LambdaFlaskInit(src) ==
    IF src \notin ALLOWED_SOURCES
    THEN [err |-> SourceNotAllowed, isApiGatewayEvent |-> FALSE]
    ELSE [err |-> NoErr, isApiGatewayEvent |-> (src = "api_gateway_proxy")]

\* LambdaFlask(source) is being evaluated: self.routes = {}, self.source =
\* source, self.isApiGatewayEvent = False are set, the check is to come.
InitCtor ==
    /\ source \in SourceArgs
    /\ isApiGatewayEvent = FALSE
    /\ routes = EmptyRoutes
    /\ nregs = 0
    /\ regErr = NoErr
    /\ lastOp = NoOp
    /\ pc = "constructing"
    /\ event = NoEvent
    /\ req = NoReq
    /\ cur = EmptyDict
    /\ idx = 0
    /\ calls = <<>>
    /\ response = NoResponse
    /\ ret = NoResponse
    /\ caught = NoErr
    /\ raised = NoErr
    /\ entry = EmptyRoutes

\* LambdaFlask.__init__ ends: it raises ValueError and no application
\* exists, or the application is there.
Construct ==
    /\ pc = "constructing"
    /\ LET r == LambdaFlaskInit(source)
       IN  /\ regErr' = r.err
           /\ isApiGatewayEvent' = r.isApiGatewayEvent
           /\ pc' = IF r.err # NoErr THEN "ConstructFailed" ELSE "idle"
    /\ UNCHANGED <<source, routes, nregs, lastOp, reqVars_noPc>>

\* An application is constructed and serves events with the registry it was
\* constructed with.
NextCtor ==
    \/ Construct
    \/ Receive
    \/ Normalize
    \/ RouteNotFound
    \/ Encode
    \/ Return
    \/ Finish
SpecCtor == InitCtor /\ [][NextCtor]_vars

\* ================================================================ claims
\* An envelope has been built by the last line of process_request.
Done == pc \in {"Encoded", "Returned"}
\* The envelope {statusCode, body}.
Envelope(statusCode, body) == MkDict({"statusCode", "body"}, statusCode, body, None, FALSE)
\* The event normalises without an exception.
Normalised == ProcessEvent(event, source).err = NoErr
\* The last user callable this invocation called.
LastCall == calls[Len(calls)]
\* The body as the variant gw encodes it.
Encoded(body, gw) == IF gw /\ ~IsStr(body) THEN Dumps(body) ELSE body
\* The elements of a list.
Range(seq) == {seq[i] : i \in 1..Len(seq)}
\* A method name in upper case.
Upper(m) == IF m = "get" THEN "GET" ELSE m

\* C1 (as claimed): when the k-th middleware returns a Response, no later
\* middleware and no handler is called, the invocation ends with an envelope,
\* and that envelope carries the Response's status code and its body encoded
\* for the Dispatcher's variant. (Stated for the bodies json.dumps accepts.)
C1_ShortCircuitExact ==
    \A k \in 1..Len(calls) :
        (calls[k].out = "response" /\ Dumpable(calls[k].resp.body)) =>
            /\ k = Len(calls)
            /\ pc \notin {"Errored", "Raised"}
            /\ Done => ret = Envelope(calls[k].resp.statusCode,
                                      Encoded(calls[k].resp.body, isApiGatewayEvent))

\* C2 (as claimed): no exception leaves process_request, and what it returns
\* is an envelope with statusCode and body.
C2_AlwaysEnvelope ==
    /\ pc # "Raised"
    /\ Done => ret.kind = "dict" /\ {"statusCode", "body"} \subseteq ret.has

\* C3 (as claimed): an exception with message m caught in process_request
\* gives the envelope {statusCode: 500, body: {"error": m}} under both
\* variants, and the registry is as it was on entry.
C3_Error500BothVariants ==
    (Done /\ caught # NoErr) =>
        /\ ret = Envelope(500, ErrorBody(caught))
        /\ routes = entry

\* C3 (amended): an exception with message m raised by normalisation, a
\* middleware or the handler never leaves process_request; the envelope has
\* statusCode 500 and the body {"error": m} under direct invocation, the JSON
\* text of {"error": m} under gateway-proxy; the registry is as it was on
\* entry.
C3_Error500 ==
    /\ (pc = "Errored") => caught # NoErr
    /\ (caught # NoErr) => pc \in {"Errored", "Encoded", "Returned"} /\ routes = entry
    /\ (Done /\ caught # NoErr) =>
            ret = Envelope(500, IF isApiGatewayEvent THEN Dumps(ErrorBody(caught))
                                ELSE ErrorBody(caught))

\* C3 witness: under gateway-proxy a middleware let the request through, the
\* handler raised, and the envelope was returned.
C3_Witness ==
    /\ pc = "Returned" /\ isApiGatewayEvent
    /\ caught = HandlerError
    /\ Len(calls) = 2 /\ LastCall.out = "raise"

\* C4 (as claimed): every event whose path is no key of the registry gets
\* exactly {statusCode: 404, body: "Route Not Found"}, and nothing is called.
C4_NotFoundEveryEvent ==
    (Done /\ event.path \in EventPaths /\ event.path \notin DOMAIN routes) =>
        /\ ret = Envelope(404, PyStr("Route Not Found"))
        /\ calls = <<>>

\* C4 (amended): every event that normalises without an exception and whose
\* path is no key of the registry gets exactly {statusCode: 404, body: "Route
\* Not Found"} under both variants; no middleware and no handler is called
\* and no exception leaves process_request.
C4_NotFound ==
    (pc \notin {"idle", "Received"} /\ Normalised /\ event.path \in EventPaths
        /\ event.path \notin DOMAIN routes) =>
        /\ calls = <<>>
        /\ pc \in {"Normalized", "ChainExecuted", "Encoded", "Returned"}
        /\ Done => ret = Envelope(404, PyStr("Route Not Found"))

\* C4 witness: a registry with a route, an event for another path, answered.
C4_Witness ==
    /\ pc = "Returned" /\ Normalised
    /\ DOMAIN routes # {} /\ event.path \notin DOMAIN routes
    /\ isApiGatewayEvent

\* The event's path is registered and its method is not bound on that Route.
MethodUnbound ==
    /\ event.path \in DOMAIN routes
    /\ event.method \notin DOMAIN routes[event.path].methods

\* C5 (as claimed): every event whose path is registered and whose method
\* is not bound gets exactly {statusCode: 405, body: "Method Not Allowed"},
\* and nothing is called.
C5_NotAllowedEveryEvent ==
    (Done /\ MethodUnbound) =>
        /\ ret = Envelope(405, PyStr("Method Not Allowed"))
        /\ calls = <<>>

\* C5 (amended): every event that normalises without an exception, whose
\* path is registered and whose method is not bound on that Route gets
\* exactly {statusCode: 405, body: "Method Not Allowed"} under both variants;
\* no middleware and no handler is called and no exception leaves
\* process_request.
C5_NotAllowed ==
    (pc \notin {"idle", "Received"} /\ Normalised /\ MethodUnbound) =>
        /\ calls = <<>>
        /\ pc \in {"Normalized", "Routed", "ChainExecuted", "Encoded", "Returned"}
        /\ Done => ret = Envelope(405, PyStr("Method Not Allowed"))

\* C5 witness: a Route with a bound method, an event for another method of
\* that path, answered under gateway-proxy.
C5_Witness ==
    /\ pc = "Returned" /\ Normalised /\ MethodUnbound
    /\ DOMAIN routes[event.path].methods # {}
    /\ isApiGatewayEvent

\* C6 (as claimed): under gateway-proxy the envelope's body is a string, the
\* JSON text of a body that was no string and the body itself otherwise;
\* under direct invocation it is the body the handler or the answering
\* middleware produced, unchanged. (Stated for the bodies json.dumps accepts.)
C6_BodyByVariant ==
    Done =>
        /\ isApiGatewayEvent => IsStr(ret.body)
        /\ (calls # <<>> /\ LastCall.out = "response" /\ Dumpable(LastCall.resp.body)) =>
                ret.body = Encoded(LastCall.resp.body, isApiGatewayEvent)
        /\ (calls # <<>> /\ LastCall.out = "result" /\ "body" \in LastCall.result.has) =>
                ret.body = Encoded(LastCall.result.body, isApiGatewayEvent)

\* C7: registering a path that is already registered keeps the one Route at
\* that path and adds to it. LambdaFlask.route on such a path returns the
\* existing Route and changes nothing; Route.route adds its method; a
\* route_decorator call that succeeds leaves a Route whose methods are those
\* it had and those of the call. The handlers of the methods the call does
\* not name are the ones bound before, and no other path changes.
C7_UnionOfMethods ==
    [][(nregs' = nregs + 1 /\ regErr' = NoErr /\ lastOp'.path \in DOMAIN routes)
        => LET p == lastOp'.path
               named == IF lastOp'.op = "route_decorator" THEN Range(lastOp'.hm.list)
                        ELSE IF lastOp'.op = "Route.route" THEN {lastOp'.method}
                        ELSE {}
           IN  /\ DOMAIN routes' = DOMAIN routes
               /\ \A q \in DOMAIN routes \ {p} : routes'[q] = routes[q]
               /\ DOMAIN routes'[p].methods = (DOMAIN routes[p].methods) \cup named
               /\ \A m \in (DOMAIN routes[p].methods) \ named :
                     /\ routes'[p].methods[m].func = routes[p].methods[m].func
                     /\ lastOp'.op # "Route.use_middleware" =>
                            routes'[p].methods[m] = routes[p].methods[m]
               /\ \A m \in named : routes'[p].methods[m].func = lastOp'.func]_vars

\* C7 witness: f1 registered for GET on /a, then f2 for POST on /a by
\* route_decorator; the Route has both.
C7_Witness ==
    /\ lastOp.op = "route_decorator" /\ lastOp.path = "/a" /\ regErr = NoErr
    /\ lastOp.hm.list = <<"POST">> /\ lastOp.func = "f2"
    /\ "/a" \in DOMAIN routes
    /\ DOMAIN routes["/a"].methods = {"GET", "POST"}
    /\ routes["/a"].methods["GET"].func = "f1"

\* C8: execute calls the middleware in chain order, the first with the
\* request params and each later one with what the one before returned, and
\* then, unless a middleware answered or something raised, the handler once
\* with what the last middleware returned; the handler's return value is
\* the result.
C8_ChainOrder ==
    (pc \notin {"idle", "Received", "Normalized"} /\ Bound) =>
        LET chain == Target.middlewares
            n == Len(chain)
        IN  /\ Len(calls) <= n + 1
            /\ \A i \in 1..Len(calls) :
                /\ calls[i].who = (IF i <= n THEN chain[i] ELSE Target.func)
                /\ calls[i].arg = (IF i = 1 THEN req.params ELSE calls[i - 1].retp)
                /\ i > 1 => calls[i - 1].out = "params"
                /\ calls[i].out \in (IF i <= n THEN {"params", "response", "raise"}
                                     ELSE {"result", "raise"})
            /\ (pc # "Routed" /\ caught = NoErr
                  /\ \A i \in 1..Len(calls) : calls[i].out # "response")
                => /\ Len(calls) = n + 1
                   /\ LastCall.out = "result"
                   /\ response = LastCall.result

\* C8 witness: two different middleware ran, one changed the params, and the
\* handler returned.
C8_Witness ==
    /\ pc = "Returned" /\ Bound
    /\ Len(calls) = 3
    /\ calls[1].who # calls[2].who
    /\ calls[1].retp # calls[1].arg
    /\ calls[3].out = "result"

\* C9 (as claimed): when the handler returns a mapping without statusCode
\* or without body, the envelope has statusCode 500 for a missing statusCode
\* and the generic failure message for a missing body.
C9_PartialDefaults ==
    (Done /\ calls # <<>> /\ LastCall.out = "result") =>
        /\ "statusCode" \notin LastCall.result.has => ret.statusCode = 500
        /\ "body" \notin LastCall.result.has =>
                ret.body = PyStr("Unable To Process Request")

\* C10 (as claimed): an event whose method differs only in letter case from
\* a method bound on its path is dispatched to that method's handler.
C10_MethodCaseInsensitive ==
    (Done /\ Normalised /\ event.path \in DOMAIN routes
        /\ Upper(event.method) \in DOMAIN routes[event.path].methods)
    => /\ calls # <<>>
       /\ ret # Envelope(405, PyStr("Method Not Allowed"))

\* C11: process_request never changes the route registry. Every step of an
\* invocation, from the call with the event to the return (or to the
\* exception leaving it), whatever its outcome, leaves the set of registered
\* paths, every Route's methods and every MethodHandler's function and
\* middleware chain as they are.
C11_RegistryReadOnly ==
    [][(pc # "idle" \/ pc' # "idle") => routes' = routes]_vars

\* C11 witness: with two paths registered, a middleware answered the request
\* and the envelope was returned; the registry is the one found on entry.
C11_Witness ==
    /\ pc = "Returned"
    /\ Cardinality(DOMAIN routes) = 2
    /\ calls # <<>> /\ LastCall.out = "response"
    /\ routes = entry

\* C12 (as claimed): a route_decorator call without http_methods (and with
\* middleware that is accepted) succeeds and binds the function for GET on
\* the path.
C12_DefaultGet ==
    (lastOp.op = "route_decorator" /\ lastOp.hm.none /\ Range(lastOp.mws) \subseteq GoodMws)
    => /\ regErr = NoErr
       /\ lastOp.path \in DOMAIN routes
       /\ "GET" \in DOMAIN routes[lastOp.path].methods
       /\ routes[lastOp.path].methods["GET"].func = lastOp.func

\* l is c with some elements left out (the elements of l occur in c in the
\* order of l).
RECURSIVE IsSubsequence(_, _)
IsSubsequence(l, c) ==
    IF l = <<>> THEN TRUE
    ELSE IF c = <<>> THEN FALSE
    ELSE IF Head(l) = Head(c) THEN IsSubsequence(Tail(l), Tail(c))
    ELSE IsSubsequence(l, Tail(c))

\* C13 (as claimed): after a route_decorator call that succeeds, every
\* method bound on the path, those bound by other calls included, has the
\* middleware of the call's list in its chain, in list order.
C13_EveryMethodOnPath ==
    (lastOp.op = "route_decorator" /\ regErr = NoErr) =>
        \A m \in DOMAIN routes[lastOp.path].methods :
            IsSubsequence(lastOp.mws, routes[lastOp.path].methods[m].middlewares)

\* C13 (amended): a route_decorator call that succeeds leaves every method
\* it names bound to its function with exactly the call's middleware list as
\* the chain, in list order; a method of the path the call does not name
\* keeps the MethodHandler and the chain it had.
C13_ListOnNamedMethods ==
    [][(lastOp'.op = "route_decorator" /\ nregs' = nregs + 1 /\ regErr' = NoErr)
        => LET p == lastOp'.path
               named == Range(lastOp'.hm.list)
           IN  /\ named \subseteq DOMAIN routes'[p].methods
               /\ \A m \in named :
                     /\ routes'[p].methods[m].middlewares = lastOp'.mws
                     /\ routes'[p].methods[m].func = lastOp'.func
               /\ p \in DOMAIN routes =>
                     \A m \in (DOMAIN routes[p].methods) \ named :
                         routes'[p].methods[m] = routes[p].methods[m]]_vars

\* C13 witness: GET was registered with the list [m1, m2], then POST with
\* [m2, m1]; each method has its own call's list, in that call's order.
C13_Witness ==
    /\ lastOp.op = "route_decorator" /\ regErr = NoErr
    /\ lastOp.hm.list = <<"POST">> /\ lastOp.mws = <<"m2", "m1">>
    /\ DeclPath \in DOMAIN routes
    /\ DOMAIN routes[DeclPath].methods = {"GET", "POST"}
    /\ routes[DeclPath].methods["GET"].middlewares = <<"m1", "m2">>
    /\ routes[DeclPath].methods["POST"].middlewares = <<"m2", "m1">>

\* C14: Route.use_middleware(method, middleware) on a Route where method is
\* not bound raises and changes nothing: no MethodHandler is created and
\* every chain is as it was. Where method is bound and the middleware is
\* accepted, the middleware becomes the last element of that method's chain,
\* the handler function stays, and no other method and no other Route
\* changes.
C14_UseMiddleware ==
    [][(lastOp'.op = "Route.use_middleware" /\ nregs' = nregs + 1)
        => LET p == lastOp'.path
               m == lastOp'.method
           IN  /\ DOMAIN routes' = DOMAIN routes
               /\ \A q \in DOMAIN routes \ {p} : routes'[q] = routes[q]
               /\ DOMAIN routes'[p].methods = DOMAIN routes[p].methods
               /\ \A x \in DOMAIN routes[p].methods \ {m} :
                     routes'[p].methods[x] = routes[p].methods[x]
               /\ m \notin DOMAIN routes[p].methods =>
                     /\ regErr' = NoMethodMsg(m) /\ regErr' # NoErr
                     /\ routes' = routes
               /\ (m \in DOMAIN routes[p].methods /\ lastOp'.mw \in GoodMws) =>
                     /\ regErr' = NoErr
                     /\ routes'[p].methods[m].middlewares =
                            Append(routes[p].methods[m].middlewares, lastOp'.mw)
                     /\ routes'[p].methods[m].func = routes[p].methods[m].func]_vars

\* C14 witness: GET is bound on /a with the chain [m1]; use_middleware for
\* POST raised, and the Route still has GET alone with that chain.
C14_Witness ==
    /\ lastOp.op = "Route.use_middleware" /\ lastOp.path = "/a"
    /\ lastOp.method = "POST" /\ lastOp.mw = "m2"
    /\ regErr = NoMethodMsg("POST")
    /\ DOMAIN routes["/a"].methods = {"GET"}
    /\ routes["/a"].methods["GET"].middlewares = <<"m1">>

\* Every element of every middleware chain of the registry satisfies P.
AllChains(P(_)) ==
    \A p \in DOMAIN routes : \A m \in DOMAIN routes[p].methods :
        \A i \in 1..Len(routes[p].methods[m].middlewares) :
            P(routes[p].methods[m].middlewares[i])

IsAccepted(middleware) == middleware \in GoodMws

\* C15 (as claimed): every element of every chain has a callable
\* process_request; use_middleware with an object that has none raises; and
\* use_middleware, on a bound method, with an object that has a callable
\* process_request succeeds.
C15_Capability ==
    /\ AllChains(HasCallableProcessRequest)
    /\ (lastOp.op = "Route.use_middleware"
            /\ lastOp.method \in DOMAIN routes[lastOp.path].methods) =>
          /\ ~HasCallableProcessRequest(lastOp.mw) => regErr # NoErr
          /\ HasCallableProcessRequest(lastOp.mw) => regErr = NoErr

\* C15 (amended): use_middleware with an object that is no instance of a
\* Middleware subclass with a callable process_request raises at
\* registration and leaves the registry as it was; so every element of
\* every chain is such an instance, and execute only ever calls those. An
\* instance of a Middleware subclass with a callable process_request, given
\* for a bound method, is accepted and appended.
C15_SubclassInstancesOnly ==
    /\ []AllChains(IsAccepted)
    /\ [](\A i \in 1..Len(calls) : calls[i].who \in GoodMws \cup Funcs)
    /\ [][(lastOp'.op = "Route.use_middleware" /\ nregs' = nregs + 1)
            => LET p == lastOp'.path
                   m == lastOp'.method
               IN  /\ lastOp'.mw \notin GoodMws => (regErr' # NoErr /\ routes' = routes)
                   /\ (lastOp'.mw \in GoodMws /\ m \in DOMAIN routes[p].methods) =>
                         /\ regErr' = NoErr
                         /\ routes'[p].methods[m].middlewares =
                                Append(routes[p].methods[m].middlewares, lastOp'.mw)]_vars

\* C15 witness: GET is bound on /a with the chain [m1]; use_middleware with
\* an object whose process_request is not callable raised and the chain is
\* as it was.
C15_Witness ==
    /\ lastOp.op = "Route.use_middleware" /\ lastOp.path = "/a"
    /\ lastOp.method = "GET" /\ lastOp.mw = "ncMw"
    /\ regErr = "Middleware must be callable"
    /\ routes["/a"].methods["GET"].middlewares = <<"m1">>

\* The message of the exception json.loads raises.
JsonError == JsonLoads(TxtBad).err

\* C16 (as claimed): every gateway-proxy event with isBase64Encoded true,
\* whatever its body (a null or empty body included), normalises to params
\* with base64 = True and file = the decoded bytes, and json.loads is not
\* applied to the body. (A body base64.b64decode rejects is left aside.)
C16_Base64EveryBody ==
    (source = "api_gateway_proxy" /\ event.b64 = "true") =>
        /\ pc = "Normalized" =>
              /\ {"base64", "file"} \subseteq DOMAIN req.params
              /\ req.params["base64"] = "True"
              /\ req.params["file"] = B64Decode(event.body.text).bytes
        /\ pc = "Errored" => caught # JsonError

\* event.get('queryStringParameters'), where it is a mapping
QueryFields(e) == IF e.query.tag = "dict" THEN e.query.d ELSE EmptyDict
\* The fields of the JSON object the body is the text of.
BodyFields(e) ==
    IF e.body.tag = "text" /\ JsonLoads(e.body.text).typ = "dict"
    THEN JsonLoads(e.body.text).d ELSE EmptyDict
\* The union of a and b in which b's value wins.
Union(a, b) == [k \in (DOMAIN a) \cup (DOMAIN b) |-> IF k \in DOMAIN b THEN b[k] ELSE a[k]]
\* The params of the claim: query and body fields, and the headers.
UnionParams(e) ==
    [k \in (DOMAIN Union(QueryFields(e), BodyFields(e))) \cup {"headers"} |->
        IF k = "headers" THEN e.headers ELSE Union(QueryFields(e), BodyFields(e))[k]]

\* C17 (as claimed): every function_url event that normalises without an
\* exception has as params exactly the union of its query-string parameters
\* and the fields of its parsed JSON body, the body's value winning, and the
\* headers entry.
C17_UnionEveryValidEvent ==
    (source = "function_url" /\ pc = "Normalized") => req.params = UnionParams(event)

\* A function_url event with a path, whose query string is absent or a
\* mapping, whose body is absent or the text of a JSON object, and that is
\* not marked base64.
JsonDirectEvent(e) ==
    /\ e.path # Absent
    /\ e.query.tag \in {"absent", "dict"}
    /\ e.body.tag = "absent" \/ (e.body.tag = "text" /\ JsonLoads(e.body.text).typ = "dict")
    /\ e.b64 # "true"

\* C17 (amended): every function_url event that is not marked base64 and
\* normalises without an exception has as params exactly the union of its
\* query-string parameters and the fields of its parsed JSON body, the
\* body's value winning, and the headers entry; and every such event with a
\* path, a query string that is absent or a mapping, and a body that is
\* absent or a JSON object does normalise.
C17_Union ==
    (source = "function_url" /\ pc \in {"Normalized", "Errored"}) =>
        /\ (pc = "Normalized" /\ event.b64 # "true") =>
              /\ req.params = UnionParams(event)
              /\ \A k \in DOMAIN BodyFields(event) : req.params[k] = BodyFields(event)[k]
              /\ req.path = event.path /\ req.method = event.method
        /\ JsonDirectEvent(event) => pc = "Normalized"

\* C17 witness: the query string has k and q, the JSON body has k and b; the
\* params have the body's k, and q, b and the headers.
C17_Witness ==
    /\ source = "function_url" /\ pc = "Normalized"
    /\ event.query = QueryDict(Query1) /\ event.body = BodyText(TxtObj)
    /\ DOMAIN req.params = {"k", "q", "b", "headers"}
    /\ req.params["k"] = "bv" /\ req.params["q"] = "1"

\* C18: LambdaFlask(source) with a source that is none of ALLOWED_SOURCES
\* raises ValueError('Source Not Allowed'), so no application that serves
\* events has such a source (and process_event never meets an invalid
\* type); with a source of ALLOWED_SOURCES the application is constructed
\* and isApiGatewayEvent is True exactly for 'api_gateway_proxy'.
C18_SourceChecked ==
    /\ pc = "ConstructFailed" => (source \notin ALLOWED_SOURCES /\ regErr = SourceNotAllowed)
    /\ pc \notin {"constructing", "ConstructFailed"} =>
          /\ source \in ALLOWED_SOURCES
          /\ isApiGatewayEvent = (source = "api_gateway_proxy")
    /\ source \notin ALLOWED_SOURCES => pc \in {"constructing", "ConstructFailed"}
    /\ caught # ProcessEvent(NoEvent, "sqs").err

\* C18 witness: construction with the source in another letter case failed.
C18_Witness ==
    /\ pc = "ConstructFailed"
    /\ source = "API_GATEWAY_PROXY"
    /\ regErr = SourceNotAllowed
    /\ ~isApiGatewayEvent

\* The positions process_request goes through one after the other: the
\* claimed order, the error path through Errored, a lookup that misses going
\* from Normalized to its 404 response, and the return to the caller.
StateOrder ==
    {<<"idle", "Received">>, <<"Received", "Normalized">>, <<"Normalized", "Routed">>,
     <<"Normalized", "ChainExecuted">>, <<"Routed", "ChainExecuted">>,
     <<"ChainExecuted", "Encoded">>, <<"Encoded", "Returned">>, <<"Returned", "idle">>,
     <<"Received", "Errored">>, <<"Routed", "Errored">>, <<"Errored", "Encoded">>}

\* C19 (as claimed): every invocation goes Received, Normalized, Routed,
\* ChainExecuted, Encoded, Returned, an error at a step leading straight to
\* Encoded; each step calls at most one more middleware or handler; and an
\* invocation ends in no other way than by reaching Returned.
C19_StateOrder ==
    [][/\ pc' # pc => <<pc, pc'>> \in StateOrder
       /\ (pc # "idle" /\ pc' # "idle") =>
             (calls' = calls \/ (pc = "Routed" /\ SubSeq(calls', 1, Len(calls)) = calls
                                    /\ Len(calls') = Len(calls) + 1))]_vars

\* C20: binding a method that is bound on the Route replaces its
\* MethodHandler by a new one with the function of the call, whose chain
\* holds nothing of the old chain: it is empty after Route.route and is the
\* call's own middleware list after a route_decorator call that succeeds.
\* The MethodHandlers of the other methods of the Route stay, and a dispatch
\* calls only the middleware of the chain that is there now.
C20_RebindFresh ==
    /\ []((pc \notin {"idle", "Received", "Normalized"} /\ Bound) =>
            \A i \in 1..Len(calls) :
                calls[i].who \in Range(Target.middlewares) \cup {Target.func})
    /\ [][(nregs' = nregs + 1 /\ regErr' = NoErr
              /\ lastOp'.op \in {"Route.route", "route_decorator"}
              /\ lastOp'.path \in DOMAIN routes)
            => LET p == lastOp'.path
                   named == IF lastOp'.op = "route_decorator" THEN Range(lastOp'.hm.list)
                            ELSE {lastOp'.method}
               IN  /\ \A m \in named \cap DOMAIN routes[p].methods :
                         /\ routes'[p].methods[m].func = lastOp'.func
                         /\ routes'[p].methods[m].middlewares = lastOp'.mws
                         /\ lastOp'.op = "Route.route" =>
                                routes'[p].methods[m] = MethodHandler(lastOp'.func)
                   /\ \A m \in (DOMAIN routes[p].methods) \ named :
                         routes'[p].methods[m] = routes[p].methods[m]]_vars

\* C20 witness: one route_decorator call bound GET and POST on /a, both with
\* the chain [m1] (the Route was created with both methods and only that
\* call can have given POST its chain); then Route.route bound GET to f2:
\* GET has a new MethodHandler with an empty chain, POST is as it was.
C20_Witness ==
    /\ nregs = 2
    /\ lastOp.op = "Route.route" /\ lastOp.path = "/a"
    /\ lastOp.method = "GET" /\ lastOp.func = "f2"
    /\ DOMAIN routes["/a"].methods = {"GET", "POST"}
    /\ routes["/a"].http_methods = <<"GET", "POST">>
    /\ routes["/a"].methods["POST"] = [func |-> "f1", middlewares |-> <<"m1">>]
    /\ routes["/a"].methods["GET"] = MethodHandler("f2")

\* The invocation took a path on which a Response object was built and
\* encoded with Response.json before the last line of process_request: the
\* except clause, a lookup that missed, a method that is not bound, or a
\* middleware that answered.
HasInner == caught # NoErr \/ calls = <<>> \/ LastCall.out = "response"
\* That Response object.
Inner ==
    IF caught # NoErr
    THEN Response(500, ErrorBody(caught), None, FALSE, isApiGatewayEvent)
    ELSE IF calls # <<>> THEN LastCall.resp
    ELSE IF req.path \notin DOMAIN routes
    THEN Response(404, PyStr("Route Not Found"), None, FALSE, isApiGatewayEvent)
    ELSE Response(405, PyStr("Method Not Allowed"), None, FALSE, FALSE)

\* C21: encoding is idempotent for a fixed variant. Encoding the envelope
\* process_request built once more, as its last line does, raises nothing
\* and gives the same envelope; and where the Response of a 404, 405, 500 or
\* answering-middleware path was first encoded with the variant of the
\* application, the final encoding leaves that envelope as it is: the body is
\* the JSON text of the Response's body, serialised once, under
\* gateway-proxy, and the Response's body itself under direct invocation.
C21_EncodeIdempotent ==
    Done =>
        /\ ~JsonRaises(FinalResponse(ret, isApiGatewayEvent))
        /\ Json(FinalResponse(ret, isApiGatewayEvent)) = ret
        /\ (HasInner /\ Inner.isApiGatewayEvent = isApiGatewayEvent) =>
              /\ ret = response
              /\ ret = Envelope(Inner.statusCode, Encoded(Inner.body, isApiGatewayEvent))
              /\ ret.body.enc = Inner.body.enc + (IF isApiGatewayEvent /\ ~IsStr(Inner.body)
                                                  THEN 1 ELSE 0)

\* C21 witness: under gateway-proxy a middleware answered with a Response
\* tagged gateway-proxy whose body is a mapping; the envelope returned has
\* the JSON text of the mapping, serialised once.
C21_Witness ==
    /\ pc = "Returned" /\ isApiGatewayEvent
    /\ calls # <<>> /\ LastCall.out = "response"
    /\ LastCall.resp.isApiGatewayEvent /\ LastCall.resp.body.typ = "dict"
    /\ ret.body = Dumps(LastCall.resp.body)

\* C22: every envelope process_request returns has the keys statusCode and
\* body and no other: the headers and the base64 flag of a middleware's
\* Response or of the mapping a handler returned are not in it.
C22_TwoKeys ==
    Done =>
        /\ ret.kind = "dict"
        /\ ret.has = {"statusCode", "body"}
        /\ ret.headers = None
        /\ ret.isBase64Encoded = FALSE

\* C22 witness: the handler returned a mapping with headers and
\* isBase64Encoded besides statusCode and body, and the envelope was
\* returned.
C22_Witness ==
    /\ pc = "Returned"
    /\ calls # <<>> /\ LastCall.out = "result"
    /\ LastCall.result.has = RespKeys
    /\ LastCall.result.headers # None /\ LastCall.result.isBase64Encoded

====
